---- MODULE Spec2Model ----
(***************************************************************************)
(* A model of app.py (Suvichaar Tools): the Tab 1 run (notes image ->      *)
(* extraction -> image pipeline -> SEO metadata -> session JSON) and the   *)
(* Tab 3 template filler.                                                  *)
(*                                                                         *)
(* Texts are sequences of characters.  Model replies are sequences of      *)
(* lexemes: "{", "}", a prose word "p", a JSON scalar "s", and member      *)
(* fragments ("title", "alts", ...) that stand for a run of                *)
(* "key": value members of a JSON object.                                  *)
(***************************************************************************)
EXTENDS Naturals, Sequences, FiniteSets, TLC

(***************************************************************************)
(* Bounds of the model and constants of the program.                       *)
(***************************************************************************)
\* longest text the rewrite model may answer with
MaxContentLen == 2
\* for attempt in range(3)
MaxAttempts == 3
\* for i in range(1, 7)
NumSlides == 6
\* build_resized_cdn_url(AWS_BUCKET, key, 720, 1200)
SlideWidth == 720
SlideHeight == 1200
\* build_resized_cdn_url(AWS_BUCKET, first_slide_key, 640, 853)
CoverWidth == 640
CoverHeight == 853

(***************************************************************************)
(* Texts.                                                                  *)
(***************************************************************************)
PromptChars == {" ", "x"}

TextsUpTo(chars, n) == UNION {[1..k -> chars] : k \in 0..n}

\* SAFE_FALLBACK: one fixed, non-blank literal (abbreviated)
SAFE_FALLBACK == <<"S", "A", "F", "E">>

\* the suffix sanitize_prompt appends when the rewrite call failed:
\* "\nFlat vector illustration, ... peaceful." (abbreviated)
LOCAL_GUARDS == <<"\n", "G">>

IsSpace(c) == c \in {" ", "\n"}

RECURSIVE LStrip(_)
LStrip(s) == IF s # <<>> /\ IsSpace(Head(s)) THEN LStrip(Tail(s)) ELSE s

RECURSIVE RStrip(_)
RStrip(s) ==
    IF s # <<>> /\ IsSpace(s[Len(s)]) THEN RStrip(SubSeq(s, 1, Len(s) - 1)) ELSE s

\* str.strip()
Strip(s) == RStrip(LStrip(s))

(***************************************************************************)
(* JSON values and objects.                                                *)
(***************************************************************************)
Str(s) == [t |-> "str", s |-> s]
Null == [t |-> "null", s |-> <<>>]

EmptyDict == [k \in {} |-> Null]

\* Python truthiness of a JSON value: None and "" are falsy
Truthy(v) == v.t = "str" /\ v.s # <<>>

\* dict.get(key, default)
Get(d, key, default) == IF key \in DOMAIN d THEN d[key] ELSE default

\* a later member of an object overrides an earlier one with the same key
Update(a, b) ==
    [k \in DOMAIN a \cup DOMAIN b |-> IF k \in DOMAIN b THEN b[k] ELSE a[k]]

AltKey(i) == <<"s1alt1", "s2alt1", "s3alt1", "s4alt1", "s5alt1", "s6alt1">>[i]
ImageKey(i) ==
    <<"s1image1", "s2image1", "s3image1", "s4image1", "s5image1", "s6image1">>[i]

AltKeys == {AltKey(i) : i \in 1..NumSlides}

\* the member fragments a reply may hold, and the members each stands for
Fragments ==
    {"title", "titleNull", "alts", "alt1Blank", "alt2Null",
     "desc", "descEmpty", "descNull", "kw", "kwEmpty", "kwNull"}

FragmentDict(f) ==
    CASE f = "title"     -> [k \in {"storytitle"} |-> Str(<<"X", " ", "x", ":">>)]
      [] f = "titleNull" -> [k \in {"storytitle"} |-> Null]
      [] f = "alts"      -> [k \in AltKeys |-> Str(<<"x">>)]
      [] f = "alt1Blank" -> [k \in {"s1alt1"} |-> Str(<<>>)]
      [] f = "alt2Null"  -> [k \in {"s2alt1"} |-> Null]
      [] f = "desc"      -> [k \in {"metadescription"} |-> Str(<<"d">>)]
      [] f = "descEmpty" -> [k \in {"metadescription"} |-> Str(<<>>)]
      [] f = "descNull"  -> [k \in {"metadescription"} |-> Null]
      [] f = "kw"        -> [k \in {"metakeywords"} |-> Str(<<"k">>)]
      [] f = "kwEmpty"   -> [k \in {"metakeywords"} |-> Str(<<>>)]
      [] f = "kwNull"    -> [k \in {"metakeywords"} |-> Null]

RECURSIVE MergeFragments(_)
MergeFragments(fs) ==
    IF fs = <<>> THEN EmptyDict
    ELSE Update(MergeFragments(SubSeq(fs, 1, Len(fs) - 1)), FragmentDict(fs[Len(fs)]))

IsObjectText(t) ==
    /\ Len(t) >= 2
    /\ t[1] = "{"
    /\ t[Len(t)] = "}"
    /\ \A j \in 2..(Len(t) - 1) : t[j] \in Fragments

\* json.loads: a dict, another JSON value, or an exception
JsonLoads(t) ==
    IF IsObjectText(t)
    THEN [kind |-> "dict", d |-> MergeFragments(SubSeq(t, 2, Len(t) - 1))]
    ELSE IF t = <<"s">>
    THEN [kind |-> "scalar", d |-> EmptyDict]
    ELSE [kind |-> "error", d |-> EmptyDict]

\* a parsed dict, or None
Some(d) == [ok |-> TRUE, d |-> d]
None == [ok |-> FALSE, d |-> EmptyDict]

Positions(t, c) == {j \in 1..Len(t) : t[j] = c}
Min(S) == CHOOSE m \in S : \A n \in S : m <= n
Max(S) == CHOOSE m \in S : \A n \in S : m >= n

\* re.search(r"\{[\s\S]*\}", raw_reply): from the first "{" to the last "}"
\* that follows it (the star is greedy); <<>> stands for no match
RegexObject(t) ==
    LET opens == Positions(t, "{")
        closes == Positions(t, "}")
    IN IF opens # {} /\ \E c \in closes : c > Min(opens)
       THEN SubSeq(t, Min(opens), Max(closes))
       ELSE <<>>

robust_parse_model_json(raw_reply) ==
    LET direct == JsonLoads(raw_reply)
    IN IF direct.kind = "dict" THEN Some(direct.d)
       ELSE IF direct.kind = "scalar" THEN None
       ELSE LET m == RegexObject(raw_reply)
                inner == JsonLoads(m)
            IN IF m # <<>> /\ inner.kind = "dict" THEN Some(inner.d) ELSE None

(***************************************************************************)
(* sanitize_prompt.  sr is the answer of the rewrite Completion call:      *)
(* kind "ok" (status 200, well-formed body, the text in content),          *)
(* "status" (not 200), "badbody" (200, sr.json()[...] raises) or            *)
(* "exception" (requests.post raises).                                     *)
(***************************************************************************)
RewriteContents == TextsUpTo(PromptChars, MaxContentLen)

RewriteAnswers ==
    {[kind |-> "ok", content |-> c] : c \in RewriteContents}
    \cup {[kind |-> k, content |-> <<>>] : k \in {"status", "badbody", "exception"}}

NoAnswer == [kind |-> "none", content |-> <<>>]

\* a variant that falls back to SAFE_FALLBACK when the rewrite call failed
C6_mutant_sanitize_prompt(original_prompt, sr) ==
    IF sr.kind = "ok" THEN Strip(sr.content) ELSE SAFE_FALLBACK

sanitize_prompt(original_prompt, sr) ==
    IF sr.kind = "ok" THEN Strip(sr.content) ELSE original_prompt \o LOCAL_GUARDS

(***************************************************************************)
(* build_resized_cdn_url, the storage key and the slug.                    *)
(***************************************************************************)
NoKey == [slug |-> <<>>, slide |-> 0]

\* CDN_PREFIX_MEDIA + base64(json({bucket, key, edits.resize{width,height}})):
\* an injective encoding of (key, width, height) for the one configured bucket
build_resized_cdn_url(key_path, width, height) ==
    [kind |-> "cdn", key |-> key_path, width |-> width, height |-> height]

DEFAULT_ERROR_IMAGE ==
    [kind |-> "default-error", key |-> NoKey, width |-> 0, height |-> 0]

Lower(c) == IF c = "X" THEN "x" ELSE c

RECURSIVE SlugOf(_)
SlugOf(s) ==
    IF s = <<>> THEN <<>>
    ELSE LET c == Lower(Head(s))
         IN IF c \in {":", "."} THEN SlugOf(Tail(s))
            ELSE <<(IF c = " " THEN "-" ELSE c)>> \o SlugOf(Tail(s))

\* (result_json.get("storytitle") or "story").lower().replace(...)
Slug(result_json) ==
    LET t == Get(result_json, "storytitle", Null)
    IN SlugOf(IF Truthy(t) THEN t.s ELSE <<"s", "t", "o", "r", "y">>)

\* a variant that stores every slide under the name of slide 1
C17_mutant_StorageKey(result_json, i) == [slug |-> Slug(result_json), slide |-> 1]

\* f"{S3_PREFIX.rstrip('/')}/{slug}/slide{i}.jpg"
StorageKey(result_json, i) == [slug |-> Slug(result_json), slide |-> i]

\* result_json.get(f"s{i}alt1", "") or ""
RawPrompt(result_json, i) ==
    LET v == Get(result_json, AltKey(i), Str(<<>>))
    IN IF Truthy(v) THEN v.s ELSE <<>>

(***************************************************************************)
(* State of one Tab 1 run ("Generate JSON").                               *)
(***************************************************************************)
VARIABLES
    pc,              \* where the run is
    diag,            \* the st.error diagnostic (or the uncaught exception) that ended it
    secrets_ok,      \* all([DALE_ENDPOINT, DAALE_KEY, AWS_ACCESS_KEY, AWS_SECRET_KEY, AWS_BUCKET])
    content,         \* the extraction reply, until it is parsed
    res, res2,       \* the status of the two answers call_azure_chat may get, until the reply is parsed
    repairCalls,     \* requests.post calls made by repair_json_with_model
    result,          \* the parsed record, or None
    i,               \* the slide of the image loop
    raw_prompt, safe_prompt, payload, attempt, image_url, img_data,
    sr,              \* the answer of the rewrite call, while sanitize_prompt returns
    calls,           \* ImageSynthesis calls made for slide i
    firstPrompt,     \* the prompt of the first ImageSynthesis call for slide i
    sleeps,          \* time.sleep(10) calls made for slide i
    status_code,     \* r.status_code of the last ImageSynthesis answer for slide i
    slideFailed,     \* a synthesis, fetch or store step of slide i failed
    synthTotal,      \* ImageSynthesis calls of the run
    rewriteTotal,    \* rewrite Completion calls of the run
    first_slide_key,
    out,             \* the image fields of the returned record
    stored,          \* the slides whose upload completed
    seoCalls, meta,
    story_json,      \* st.session_state["story_json"]
    download,        \* the download button was offered
    fpc,             \* where the Tab 3 run ("Fill Templates") is
    tab3_json,       \* the JSON Tab 3 loaded: key/value members, in order
    add_time_fields, \* the "Auto-fill time fields" checkbox
    html_files,      \* the uploaded templates
    merged,          \* the working copy the templates are filled from
    html_text,       \* the decoded text of the template
    filled,          \* the filled text of the template
    placeholders,    \* the names fill_template_strict found in the template
    missing,         \* the report: names with no key in merged
    zip_entries,     \* the filled texts written to the ZIP
    tpc,             \* where the Tab 2 run ("Generate Audio & Update JSON") is
    tdiag,           \* the st.error (or uncaught exception) that ended the Tab 2 run
    json_file,       \* the JSON uploaded in Tab 2
    sdk_ok,          \* import azure.cognitiveservices.speech succeeds
    json_data,       \* Tab 2's json_data: its text fields and its audio fields
    field,           \* the position of the loop over field_mapping
    tts_download,    \* the Tab 2 download button was offered
    ppc,             \* where the call of robust_parse_model_json is
    parse_in,        \* its argument raw_reply
    parse_out        \* what it returned

extractVars == <<content, res, res2, repairCalls, result>>
slideVars == <<raw_prompt, safe_prompt, sr, payload, attempt, image_url, img_data,
               calls, firstPrompt, sleeps, status_code, slideFailed>>
imageVars == <<i, synthTotal, rewriteTotal, first_slide_key, out, stored>>
tailVars == <<seoCalls, meta, story_json, download>>
tab1Vars == <<pc, diag, secrets_ok, extractVars, slideVars, imageVars, tailVars>>
fillVars == <<fpc, tab3_json, add_time_fields, html_files, merged, html_text, filled,
              placeholders, missing, zip_entries>>
ttsVars == <<tpc, tdiag, json_file, sdk_ok, json_data, field, tts_download>>
parseVars == <<ppc, parse_in, parse_out>>
vars == <<tab1Vars, fillVars, ttsVars, parseVars>>

NoText == <<>>
EmptyOut == [k \in {} |-> DEFAULT_ERROR_IMAGE]
NoMeta == [set |-> FALSE, metadescription |-> Null, metakeywords |-> Null]
NoJson == [loaded |-> FALSE]
\* the uploader: nothing, a file json.load rejects, a file holding an object
NoUpload == [kind |-> "none", d |-> EmptyDict]
BadUpload == [kind |-> "bad", d |-> EmptyDict]
JsonUpload(d) == [kind |-> "ok", d |-> d]
NoDoc == [present |-> FALSE, d |-> EmptyDict, images |-> EmptyOut, meta |-> NoMeta]

\* the replies the extraction and repair calls are given to answer with
ExtractionReplies ==
    { <<"{", "title", "alts", "}">>,
      <<"p", "{", "title", "alts", "}">>,
      <<"{", "alts", "alt1Blank", "alt2Null", "}">>,
      <<"{", "titleNull", "}">>,
      <<"{", "title", "}", "p", "}">>,
      <<"p">>, <<"s">>, <<>> }

\* the replies the SEO call is given to answer with
SeoReplies ==
    { <<"{", "desc", "kw", "}">>,
      <<"p", "{", "desc", "kw", "}", "p">>,
      <<"{", "desc", "}">>,
      <<"{", "descEmpty", "kw", "}">>,
      <<"{", "desc", "kwNull", "}">>,
      <<"{", "}">>,
      <<"p">>, <<"s">> }

\* the script's state at the start of a run, whatever the session holds
Tab1Fresh ==
    /\ pc = "idle"
    /\ diag = "none"
    /\ content = NoText
    /\ res = "none"
    /\ res2 = "none"
    /\ repairCalls = 0
    /\ result = None
    /\ i = 0
    /\ raw_prompt = NoText
    /\ safe_prompt = NoText
    /\ sr = NoAnswer
    /\ payload = NoText
    /\ attempt = 0
    /\ image_url = NoText
    /\ img_data = "none"
    /\ calls = 0
    /\ firstPrompt = NoText
    /\ sleeps = 0
    /\ status_code = "none"
    /\ slideFailed = FALSE
    /\ synthTotal = 0
    /\ rewriteTotal = 0
    /\ first_slide_key = NoKey
    /\ out = EmptyOut
    /\ stored = {}
    /\ seoCalls = 0
    /\ meta = NoMeta
    /\ download = FALSE

\* no Tab 1 run yet, nothing in the session
Tab1Idle ==
    /\ Tab1Fresh
    /\ story_json = NoDoc

\* no template run: nothing loaded, nothing uploaded
Tab3Idle ==
    /\ fpc = "idle"
    /\ tab3_json = <<>>
    /\ add_time_fields = FALSE
    /\ html_files = <<>>
    /\ merged = <<>>
    /\ html_text = NoText
    /\ filled = NoText
    /\ placeholders = {}
    /\ missing = {}
    /\ zip_entries = <<>>

\* no Tab 2 run
Tab2Idle ==
    /\ tpc = "idle"
    /\ tdiag = "none"
    /\ json_file = NoUpload
    /\ sdk_ok = TRUE
    /\ json_data = NoJson
    /\ field = 0
    /\ tts_download = FALSE

\* no call of robust_parse_model_json on its own
ParseIdle ==
    /\ ppc = "idle"
    /\ parse_in = NoText
    /\ parse_out = None

Init ==
    /\ secrets_ok \in BOOLEAN
    /\ Tab1Idle
    /\ Tab3Idle
    /\ Tab2Idle
    /\ ParseIdle

Stop(d) ==
    /\ pc' = "stopped"
    /\ diag' = d

(***************************************************************************)
(* Tab 1, lines 401-416: the button, the uploaded file.                    *)
(***************************************************************************)
Tab1Click ==
    /\ pc = "idle"
    /\ \E up \in {"ok", "none", "empty", "unreadable"} :
          IF up = "ok"
          THEN pc' = "chat" /\ diag' = diag
          ELSE Stop(up)
    /\ UNCHANGED <<secrets_ok, extractVars, slideVars, imageVars, tailVars, fillVars, ttsVars, parseVars>>

(***************************************************************************)
(* call_azure_chat(messages, force_json=True): the first post, and the     *)
(* retry without response_format after a status other than 200.            *)
(***************************************************************************)
ChatPost ==
    /\ pc = "chat"
    /\ \/ /\ Stop("Azure request failed")
          /\ content' = content
          /\ res' = res
       \/ /\ \E reply \in ExtractionReplies : content' = reply
          /\ res' = "200"
          /\ pc' = "parse"
          /\ diag' = diag
       \/ /\ res' = "status"
          /\ pc' = "chat_retry"
          /\ diag' = diag
          /\ content' = content
    /\ UNCHANGED <<secrets_ok, res2, repairCalls, result, slideVars, imageVars, tailVars, fillVars, ttsVars, parseVars>>

\* a variant that posts again after the retry was answered a status other than 200
C16_mutant_AfterRetryAnswer(status) == IF status = "200" THEN "parse" ELSE "chat_retry"

\* lines 216-218: the content on a 200, else return False, "Azure Chat error: ..."
AfterRetryAnswer(status) == IF status = "200" THEN "parse" ELSE "stopped"

ChatRetry ==
    /\ pc = "chat_retry"
    /\ \/ /\ Stop("Azure retry failed")
          /\ content' = content
          /\ res2' = res2
       \/ /\ \E reply \in ExtractionReplies : content' = reply
          /\ res2' = "200"
          /\ pc' = AfterRetryAnswer("200")
          /\ diag' = diag
       \/ /\ res2' = "status"
          /\ pc' = AfterRetryAnswer("status")
          /\ diag' = "Azure Chat error"
          /\ content' = content
    /\ UNCHANGED <<secrets_ok, res, repairCalls, result, slideVars, imageVars, tailVars, fillVars, ttsVars, parseVars>>

(***************************************************************************)
(* Tab 1, lines 476-487: parse, one-shot repair, the hard stop.            *)
(***************************************************************************)
ParseReply ==
    /\ pc = "parse"
    /\ result' = robust_parse_model_json(content)
    /\ pc' = IF result'.ok THEN "images" ELSE "repair"
    /\ content' = IF result'.ok THEN NoText ELSE content
    /\ res' = "none"
    /\ res2' = "none"
    /\ UNCHANGED <<diag, secrets_ok, repairCalls, slideVars, imageVars, tailVars, fillVars, ttsVars, parseVars>>

\* repair_json_with_model: None on an exception or a status other than 200
RepairOutcomes ==
    {None} \cup {robust_parse_model_json(fixed) : fixed \in ExtractionReplies}

\* a variant without the st.stop() after the failed repair
C5_mutant_AfterRepair(r) == "images"

\* if not isinstance(result, dict): st.error(...); st.stop()
AfterRepair(r) == IF r.ok THEN "images" ELSE "stopped"

Repair ==
    /\ pc = "repair"
    /\ repairCalls' = repairCalls + 1
    /\ \E fixed \in RepairOutcomes :
          /\ result' = IF fixed.ok THEN fixed ELSE result
          /\ pc' = AfterRepair(result')
          /\ diag' = IF result'.ok THEN diag ELSE "Model did not return a valid JSON object"
    /\ content' = IF result'.ok THEN NoText ELSE content
    /\ UNCHANGED <<secrets_ok, res, res2, slideVars, imageVars, tailVars, fillVars, ttsVars, parseVars>>

(***************************************************************************)
(* generate_and_upload_images.                                             *)
(***************************************************************************)
ResetSlide ==
    /\ raw_prompt' = NoText
    /\ safe_prompt' = NoText
    /\ sr' = NoAnswer
    /\ payload' = NoText
    /\ attempt' = 0
    /\ image_url' = NoText
    /\ img_data' = "none"
    /\ calls' = 0
    /\ firstPrompt' = NoText
    /\ sleeps' = 0
    /\ status_code' = "none"
    /\ slideFailed' = FALSE

\* lines 226-248: the secrets check; out is a copy of result_json
ImagesStart ==
    /\ pc = "images"
    /\ IF secrets_ok
       THEN pc' = "sanitize" /\ i' = 1
       ELSE pc' = "seo" /\ i' = i
    /\ UNCHANGED <<diag, secrets_ok, extractVars, slideVars, synthTotal, rewriteTotal,
                   first_slide_key, out, stored, tailVars, fillVars, ttsVars, parseVars>>

\* a variant that sends raw_prompt instead of safe_prompt
C8_mutant_FirstPayloadPrompt(raw, safe) == raw

\* payload = {"prompt": safe_prompt, "n": 1, "size": "1024x1024"}
FirstPayloadPrompt(raw, safe) == safe

\* lines 251-257: the slide's prompt, one rewrite call, the first payload
Sanitize ==
    /\ pc = "sanitize"
    /\ raw_prompt' = RawPrompt(result.d, i)
    /\ \E answer \in RewriteAnswers :
          /\ sr' = answer
          /\ safe_prompt' = sanitize_prompt(raw_prompt', answer)
    /\ rewriteTotal' = rewriteTotal + 1
    /\ payload' = FirstPayloadPrompt(raw_prompt', safe_prompt')
    /\ attempt' = 0
    /\ image_url' = NoText
    /\ pc' = "synth"
    /\ UNCHANGED <<diag, secrets_ok, extractVars, img_data, calls, firstPrompt, sleeps,
                   status_code,
                   slideFailed, i, synthTotal, first_slide_key, out, stored, tailVars, fillVars, ttsVars, parseVars>>

\* what the ImageSynthesis call answers: a status (200 with a body that holds
\* the URL, or 200 with a body that does not), or the call raises
SynthAnswers == {"200", "200badbody", "400", "403", "429", "500", "exception"}

\* a variant in which a 429 does not use up an attempt
C3_mutant_NextAttempt(status, a) == IF status = "429" THEN a ELSE a + 1

\* for attempt in range(3): every pass of the loop takes the next attempt
NextAttempt(status, a) == a + 1

\* the slide ends with no image_url: out[f"s{i}image1"] = DEFAULT_ERROR_IMAGE
GiveUp ==
    /\ out' = [k \in DOMAIN out \cup {ImageKey(i)} |->
                 IF k = ImageKey(i) THEN DEFAULT_ERROR_IMAGE ELSE out[k]]
    /\ slideFailed' = TRUE
    /\ pc' = "progress"

\* a variant in which a 429 too replaces the prompt
C14_mutant_PayloadAfter(status, prompt) ==
    IF status \in {"400", "403", "429"} THEN SAFE_FALLBACK ELSE prompt

\* lines 268-270: if r.status_code in (400, 403): payload = {"prompt": SAFE_FALLBACK.strip(), ...}
PayloadAfter(status, prompt) ==
    IF status \in {"400", "403"} THEN SAFE_FALLBACK ELSE prompt

\* a variant that backs off after a 400 or 403 too
C15_mutant_SleepsAfter(status, n) ==
    IF status \in {"400", "403", "429"} THEN n + 1 ELSE n

\* lines 272-274: elif r.status_code == 429: time.sleep(10)
SleepsAfter(status, n) == IF status = "429" THEN n + 1 ELSE n

\* r.status_code after the answer; r is not assigned when the call raises
StatusCodeAfter(status, old) ==
    CASE status = "exception" -> old
      [] status = "200badbody" -> "200"
      [] OTHER -> status

\* lines 259-277 and, when the loop ends without a URL, lines 294-295
Synth ==
    /\ pc = "synth"
    /\ attempt < MaxAttempts
    /\ calls' = calls + 1
    /\ synthTotal' = synthTotal + 1
    /\ firstPrompt' = IF calls = 0 THEN payload ELSE firstPrompt
    /\ \E status \in SynthAnswers :
          /\ status_code' = StatusCodeAfter(status, status_code)
          /\ payload' = PayloadAfter(status, payload)
          /\ sleeps' = SleepsAfter(status, sleeps)
          /\ CASE status = "exception" ->
                 /\ pc' = "raised"
                 /\ diag' = "ImageSynthesis request raised"
                 /\ slideFailed' = TRUE
                 /\ UNCHANGED <<attempt, image_url, out>>
            [] status = "200" ->
                 /\ image_url' = <<"u">>
                 /\ pc' = "fetch"
                 /\ UNCHANGED <<diag, attempt, slideFailed, out>>
            [] status \in {"200badbody", "500"} ->
                 /\ GiveUp
                 /\ UNCHANGED <<diag, attempt, image_url>>
            [] status \in {"400", "403", "429"} ->
                 /\ attempt' = NextAttempt(status, attempt)
                 /\ IF attempt' < MaxAttempts
                    THEN pc' = "synth" /\ UNCHANGED <<slideFailed, out>>
                    ELSE GiveUp
                 /\ UNCHANGED <<diag, image_url>>
    /\ sr' = NoAnswer
    /\ UNCHANGED <<secrets_ok, extractVars, raw_prompt, safe_prompt, img_data,
                   i, rewriteTotal, first_slide_key, stored, tailVars, fillVars, ttsVars, parseVars>>

\* line 281: requests.get(image_url, timeout=120).content; the status of the
\* answer is not looked at
Fetch ==
    /\ pc = "fetch"
    /\ \E answer \in {"200", "404", "exception"} :
          CASE answer = "exception" ->
                 /\ GiveUp
                 /\ img_data' = img_data
            [] answer = "200" ->
                 /\ img_data' = "image"
                 /\ pc' = "upload"
                 /\ UNCHANGED <<slideFailed, out>>
            [] answer = "404" ->
                 /\ img_data' = "errorbody"
                 /\ slideFailed' = TRUE
                 /\ pc' = "upload"
                 /\ out' = out
    /\ UNCHANGED <<diag, secrets_ok, extractVars, raw_prompt, safe_prompt, sr, payload,
                   attempt, image_url, calls, firstPrompt, sleeps,
                   status_code, i, synthTotal,
                   rewriteTotal, first_slide_key, stored, tailVars, fillVars, ttsVars, parseVars>>

\* a variant without the test i == 1
C4_mutant_FirstSlideKeyAfterUpload(slide, key, old) == key

\* if i == 1: first_slide_key = key
FirstSlideKeyAfterUpload(slide, key, old) == IF slide = 1 THEN key ELSE old

\* lines 283-293: s3.upload_fileobj, then the display URL
Upload ==
    /\ pc = "upload"
    /\ \/ /\ GiveUp
          /\ UNCHANGED <<first_slide_key, stored>>
       \/ LET key == StorageKey(result.d, i)
          IN /\ stored' = stored \cup {i}
             /\ first_slide_key' = FirstSlideKeyAfterUpload(i, key, first_slide_key)
             /\ out' = [k \in DOMAIN out \cup {ImageKey(i)} |->
                          IF k = ImageKey(i)
                          THEN build_resized_cdn_url(key, SlideWidth, SlideHeight)
                          ELSE out[k]]
             /\ pc' = "progress"
             /\ slideFailed' = slideFailed
    /\ UNCHANGED <<diag, secrets_ok, extractVars, raw_prompt, safe_prompt, sr, payload,
                   attempt, image_url, img_data, calls, firstPrompt, sleeps,
                   status_code, i,
                   synthTotal, rewriteTotal, tailVars, fillVars, ttsVars, parseVars>>

\* line 297, and the next pass of for i in range(1, 7)
Progress ==
    /\ pc = "progress"
    /\ IF i < NumSlides
       THEN pc' = "sanitize" /\ i' = i + 1
       ELSE pc' = "cover" /\ i' = i
    /\ ResetSlide
    /\ UNCHANGED <<diag, secrets_ok, extractVars, synthTotal, rewriteTotal,
                   first_slide_key, out, stored, tailVars, fillVars, ttsVars, parseVars>>

\* lines 301-311: the portrait cover, return out
Cover ==
    /\ pc = "cover"
    /\ out' = [k \in DOMAIN out \cup {"potraitcoverurl"} |->
                 IF k = "potraitcoverurl"
                 THEN IF first_slide_key # NoKey
                      THEN build_resized_cdn_url(first_slide_key, CoverWidth, CoverHeight)
                      ELSE DEFAULT_ERROR_IMAGE
                 ELSE out[k]]
    /\ pc' = "seo"
    /\ UNCHANGED <<diag, secrets_ok, extractVars, slideVars, i, synthTotal, rewriteTotal,
                   first_slide_key, stored, tailVars, fillVars, ttsVars, parseVars>>

(***************************************************************************)
(* generate_seo_metadata.  The answer of the SEO Completion call: kind     *)
(* "ok" (200, the text in content), "status", "badbody" or "exception".    *)
(***************************************************************************)
SeoAnswers ==
    {[kind |-> "ok", content |-> c] : c \in SeoReplies}
    \cup {[kind |-> k, content |-> <<>>] : k \in {"status", "badbody", "exception"}}

\* "Explore this insightful story." and "web story, inspiration" (abbreviated)
DefaultDescription == Str(<<"E">>)
DefaultKeywords == Str(<<"w">>)

generate_seo_metadata(r) ==
    IF r.kind = "ok"
    THEN LET parsed == robust_parse_model_json(r.content)
             data == IF parsed.ok /\ DOMAIN parsed.d # {} THEN parsed.d ELSE EmptyDict
         IN [set |-> TRUE,
             metadescription |-> Get(data, "metadescription", DefaultDescription),
             metakeywords |-> Get(data, "metakeywords", DefaultKeywords)]
    ELSE [set |-> TRUE,
          metadescription |-> DefaultDescription,
          metakeywords |-> DefaultKeywords]

\* Tab 1, lines 500-505
Seo ==
    /\ pc = "seo"
    /\ seoCalls' = seoCalls + 1
    /\ \E r \in SeoAnswers : meta' = generate_seo_metadata(r)
    /\ pc' = "save"
    /\ UNCHANGED <<diag, secrets_ok, extractVars, slideVars, imageVars,
                   story_json, download, fillVars, ttsVars, parseVars>>

\* Tab 1, lines 508-527: the session copy, then the name and the download;
\* final_json.get("storytitle", "story").replace raises on a null title
Save ==
    /\ pc = "save"
    /\ story_json' = [present |-> TRUE, d |-> result.d, images |-> out, meta |-> meta]
    /\ IF Get(result.d, "storytitle", Str(<<"s", "t", "o", "r", "y">>)).t = "str"
       THEN pc' = "done" /\ download' = TRUE /\ diag' = diag
       ELSE pc' = "raised" /\ download' = download
            /\ diag' = "story_json_name raised"
    /\ UNCHANGED <<secrets_ok, extractVars, slideVars, imageVars, seoCalls, meta,
                   fillVars, ttsVars, parseVars>>

Next ==
    \/ Tab1Click
    \/ ChatPost
    \/ ChatRetry
    \/ ParseReply
    \/ Repair
    \/ ImagesStart
    \/ Sanitize
    \/ Synth
    \/ Fetch
    \/ Upload
    \/ Progress
    \/ Cover
    \/ Seo
    \/ Save

Spec == Init /\ [][Next]_vars

(***************************************************************************)
(* Tab 3: fill HTML templates.  A JSON object is the sequence of its       *)
(* members [k |-> key text, v |-> value], in order, keys distinct.         *)
(***************************************************************************)
\* most pieces a template is made of
MaxPieces == 4

\* the pieces templates are built from; the last is a whole token
TemplatePieces ==
    { <<"{", "{">>, <<"}", "}">>, <<"a">>, <<"b">>, <<" ">>, <<"{", "{", "a", "}", "}">> }

RECURSIVE Flatten(_)
Flatten(ps) == IF ps = <<>> THEN <<>> ELSE Head(ps) \o Flatten(Tail(ps))

Templates ==
    {Flatten(ps) : ps \in UNION {[1..n -> TemplatePieces] : n \in 0..MaxPieces}}

FillKeys == { <<"a">>, <<"b">> }

FillValues == { Str(<<"X">>), Str(<<"{", "{", "b", "}", "}">>), Null }

Member(k, v) == [k |-> k, v |-> v]

\* the JSON objects Tab 3 may load: the members in either order
StoryObjects ==
    {<<>>}
    \cup {<<Member(k, v)>> : k \in FillKeys, v \in FillValues}
    \cup UNION {{<<Member(k1, v1), Member(k2, v2)>> :
                    k2 \in FillKeys \ {k1}, v1 \in FillValues, v2 \in FillValues} :
                 k1 \in FillKeys}

Keys(data) == {data[n].k : n \in 1..Len(data)}

\* dict.update with one member: the value is replaced in place, a new key
\* is appended
SetItem(data, k, v) ==
    IF k \in Keys(data)
    THEN [n \in 1..Len(data) |-> IF data[n].k = k THEN Member(k, v) ELSE data[n]]
    ELSE Append(data, Member(k, v))

\* iso_now (abbreviated)
IsoNow == Str(<<"T">>)

\* extra_fields: publishedtime and modifiedtime when the box is ticked
Merge(story, time_fields) ==
    IF time_fields
    THEN SetItem(SetItem(story, <<"publishedtime">>, IsoNow), <<"modifiedtime">>, IsoNow)
    ELSE story

\* str(v)
TextForm(v) == IF v.t = "str" THEN v.s ELSE <<"N", "o", "n", "e">>

\* f"{{{{{k}}}}}"
Token(k) == <<"{", "{">> \o k \o <<"}", "}">>

StartsWith(s, sub) == Len(sub) <= Len(s) /\ SubSeq(s, 1, Len(sub)) = sub

Contains(s, sub) ==
    \E p \in 1..(Len(s) + 1) : StartsWith(SubSeq(s, p, Len(s)), sub)

\* str.replace(old, new), old not empty: left to right, without overlaps
RECURSIVE Replace(_, _, _)
Replace(s, old, new) ==
    IF s = <<>> THEN <<>>
    ELSE IF StartsWith(s, old)
    THEN new \o Replace(SubSeq(s, Len(old) + 1, Len(s)), old, new)
    ELSE <<Head(s)>> \o Replace(Tail(s), old, new)

\* [a-zA-Z0-9_\-]
IsNameChar(c) == c \in {"a", "b"}

RECURSIVE SkipSpaces(_, _)
SkipSpaces(t, p) ==
    IF p <= Len(t) /\ IsSpace(t[p]) THEN SkipSpaces(t, p + 1) ELSE p

RECURSIVE SkipName(_, _)
SkipName(t, p) ==
    IF p <= Len(t) /\ IsNameChar(t[p]) THEN SkipName(t, p + 1) ELSE p

\* \{\{\s*([a-zA-Z0-9_\-]+)\s*\}\} tried at position p
MatchAt(t, p) ==
    LET nameStart == SkipSpaces(t, p + 2)
        nameEnd == SkipName(t, nameStart)
        close == SkipSpaces(t, nameEnd)
    IN IF /\ p + 1 <= Len(t)
          /\ t[p] = "{"
          /\ t[p + 1] = "{"
          /\ nameEnd > nameStart
          /\ close + 1 <= Len(t)
          /\ t[close] = "}"
          /\ t[close + 1] = "}"
       THEN [ok |-> TRUE, name |-> SubSeq(t, nameStart, nameEnd - 1), next |-> close + 2]
       ELSE [ok |-> FALSE, name |-> <<>>, next |-> p + 1]

\* set(re.findall(...)) from position p on
RECURSIVE FindAll(_, _)
FindAll(t, p) ==
    IF p > Len(t) THEN {}
    ELSE LET m == MatchAt(t, p)
         IN (IF m.ok THEN {m.name} ELSE {}) \cup FindAll(t, m.next)

\* for k, v in data.items(): template = template.replace("{{k}}", str(v))
RECURSIVE ReplaceEach(_, _)
ReplaceEach(template, data) ==
    IF data = <<>> THEN template
    ELSE ReplaceEach(Replace(template, Token(Head(data).k), TextForm(Head(data).v)),
                     Tail(data))

fill_template_strict(template, data) ==
    [filled |-> ReplaceEach(template, data), placeholders |-> FindAll(template, 1)]

\* the report without the test that the exact token is in the text
C11_mutant_MissingReport(names, text, data) ==
    {n \in names : n \notin Keys(data)}

\* line 742: the names of the report (sorted(...) of this set)
MissingReport(names, text, data) ==
    {n \in names : Contains(text, Token(n)) /\ n \notin Keys(data)}

\* an uploaded file: UTF-8 text, or bytes that do not decode
File(t) == [utf8 |-> TRUE, text |-> t]
BadFile == [utf8 |-> FALSE, text |-> <<>>]

FillInit ==
    /\ secrets_ok = TRUE
    /\ Tab1Idle
    /\ Tab2Idle
    /\ ParseIdle
    /\ fpc = "idle"
    /\ tab3_json \in StoryObjects
    /\ add_time_fields \in BOOLEAN
    /\ html_files \in {<<>>, <<BadFile>>} \cup {<<File(t)>> : t \in Templates}
    /\ merged = <<>>
    /\ html_text = NoText
    /\ filled = NoText
    /\ placeholders = {}
    /\ missing = {}
    /\ zip_entries = <<>>

\* lines 711-729: the button, the two checks, the working copy
FillClick ==
    /\ fpc = "idle"
    /\ IF tab3_json = <<>> \/ html_files = <<>>
       THEN fpc' = "stopped" /\ merged' = merged
       ELSE fpc' = "file" /\ merged' = Merge(tab3_json, add_time_fields)
    /\ UNCHANGED <<tab1Vars, ttsVars, parseVars, tab3_json, add_time_fields, html_files, html_text, filled,
                   placeholders, missing, zip_entries>>

\* lines 732-747: one pass of for f in html_files
FillFile ==
    /\ fpc = "file"
    /\ html_files # <<>>
    /\ LET f == Head(html_files)
       IN IF f.utf8
          THEN LET r == fill_template_strict(f.text, merged)
               IN /\ html_text' = f.text
                  /\ filled' = r.filled
                  /\ placeholders' = r.placeholders
                  /\ missing' = MissingReport(r.placeholders, f.text, merged)
                  /\ zip_entries' = Append(zip_entries, r.filled)
          ELSE UNCHANGED <<html_text, filled, placeholders, missing, zip_entries>>
    /\ html_files' = Tail(html_files)
    /\ fpc' = IF html_files' = <<>> THEN "zip" ELSE "file"
    /\ UNCHANGED <<tab1Vars, ttsVars, parseVars, tab3_json, add_time_fields, merged>>

\* lines 749-764: z.close(), the report, the download
FillDone ==
    /\ fpc = "zip"
    /\ fpc' = "done"
    /\ UNCHANGED <<tab1Vars, ttsVars, parseVars, tab3_json, add_time_fields, html_files, merged, html_text,
                   filled, placeholders, missing, zip_entries>>

FillNext ==
    \/ FillClick
    \/ FillFile
    \/ FillDone

SpecFill == FillInit /\ [][FillNext]_vars

(***************************************************************************)
(* Tab 2: narration.  json_data is [loaded, d, audio]: d the members the   *)
(* run reads, audio the s#audio1 members it writes.                        *)
(***************************************************************************)
\* the .mp3 names os.urandom may draw
MaxUuids == 2

NumFields == 6

\* field_mapping, in its order
TextField(k) ==
    <<"storytitle", "s2paragraph1", "s3paragraph1", "s4paragraph1", "s5paragraph1",
      "s6paragraph1">>[k]
AudioKey(k) ==
    <<"s1audio1", "s2audio1", "s3audio1", "s4audio1", "s5audio1", "s6audio1">>[k]

ParagraphFields == {TextField(k) : k \in 2..NumFields}

\* f"{CDN_BASE.rstrip('/')}/{S3_PREFIX.rstrip('/')}/audio/{uuid_name}"
AudioUrl(uuid_name) == [kind |-> "audio", uuid |-> uuid_name]

NoAudio == [k \in {} |-> AudioUrl(0)]

\* the title of an uploaded JSON: a text, "", null
UploadedTitles == {Str(<<"T">>), Str(<<>>), Null}

\* the objects an uploaded JSON file may hold: the paragraphs a text or "",
\* the title as above or absent
UploadedJson ==
    UNION {
        {[k \in ParagraphFields |-> IF k \in full THEN Str(<<"t">>) ELSE Str(<<>>)]}
        \cup {[k \in ParagraphFields \cup {"storytitle"} |->
                  IF k = "storytitle" THEN title
                  ELSE IF k \in full THEN Str(<<"t">>) ELSE Str(<<>>)] :
              title \in UploadedTitles} :
        full \in SUBSET ParagraphFields}

\* what a Tab 1 run left in the session (every image the placeholder)
SessionDocs ==
    {[present |-> TRUE,
      d |-> MergeFragments(fs),
      images |-> [k \in {ImageKey(n) : n \in 1..NumSlides} \cup {"potraitcoverurl"} |->
                     DEFAULT_ERROR_IMAGE],
      meta |-> [set |-> TRUE, metadescription |-> DefaultDescription,
                metakeywords |-> DefaultKeywords]] :
     fs \in {<<"title", "alts">>, <<"alts">>}}

TtsInit ==
    /\ secrets_ok = TRUE
    /\ Tab1Fresh
    /\ story_json \in {NoDoc} \cup SessionDocs
    /\ Tab3Idle
    /\ ParseIdle
    /\ tpc = "idle"
    /\ tdiag = "none"
    /\ json_file \in {NoUpload, BadUpload} \cup {JsonUpload(d) : d \in UploadedJson}
    /\ sdk_ok \in BOOLEAN
    /\ json_data = NoJson
    /\ field = 0
    /\ tts_download = FALSE

TtsStop(d) ==
    /\ tpc' = "stopped"
    /\ tdiag' = d
    /\ UNCHANGED <<json_data, field>>

\* lines 547-584: the button, the JSON from the upload or the session, the
\* import of the Speech SDK
TtsClick ==
    /\ tpc = "idle"
    /\ IF json_file.kind = "bad"
       THEN TtsStop("Could not parse JSON")
       ELSE IF json_file.kind = "none" /\ ~story_json.present
       THEN TtsStop("Please upload a JSON file first")
       ELSE IF ~sdk_ok
       THEN TtsStop("azure-cognitiveservices-speech is not installed")
       ELSE /\ json_data' = [loaded |-> TRUE,
                             d |-> IF json_file.kind = "none" THEN story_json.d ELSE json_file.d,
                             audio |-> NoAudio]
            /\ field' = 1
            /\ tpc' = "field"
            /\ tdiag' = tdiag
    /\ UNCHANGED <<tab1Vars, fillVars, parseVars, json_file, sdk_ok, tts_download>>

\* what synthesis and upload of one field may do
TtsOutcomes == {"synth raised", "not completed", "upload raised", "uploaded"}

\* json_data after the pass for one field: the audio key is set only when the
\* upload completed
AudioAfter(outcome, audio, audio_key, cdn_url) ==
    IF outcome = "uploaded"
    THEN [k \in DOMAIN audio \cup {audio_key} |-> IF k = audio_key THEN cdn_url ELSE audio[k]]
    ELSE audio

\* lines 597-633: one pass of for field, audio_key in field_mapping.items()
TtsField ==
    /\ tpc = "field"
    /\ LET text == Get(json_data.d, TextField(field), Null)
       IN IF ~Truthy(text)
          THEN json_data' = json_data
          ELSE \E outcome \in TtsOutcomes, uuid_name \in 1..MaxUuids :
                  json_data' = [json_data EXCEPT !.audio =
                      AudioAfter(outcome, json_data.audio, AudioKey(field), AudioUrl(uuid_name))]
    /\ IF field < NumFields
       THEN field' = field + 1 /\ tpc' = "field"
       ELSE field' = field /\ tpc' = "save"
    /\ UNCHANGED <<tab1Vars, fillVars, parseVars, tdiag, json_file, sdk_ok, tts_download>>

\* lines 640-658: the session copy, then the name and the download;
\* json_data.get("storytitle", "updated_story").replace raises on a null title
TtsSave ==
    /\ tpc = "save"
    /\ story_json' = [present |-> TRUE, d |-> json_data.d, audio |-> json_data.audio]
    /\ IF Get(json_data.d, "storytitle", Str(<<"u">>)).t = "str"
       THEN tpc' = "done" /\ tts_download' = TRUE /\ tdiag' = tdiag
       ELSE tpc' = "raised" /\ tts_download' = tts_download
            /\ tdiag' = "story_json_name raised"
    /\ UNCHANGED <<pc, diag, secrets_ok, extractVars, slideVars, imageVars, seoCalls, meta,
                   download, fillVars, parseVars, json_file, sdk_ok, json_data, field>>

TtsNext ==
    \/ TtsClick
    \/ TtsField
    \/ TtsSave

SpecTts == TtsInit /\ [][TtsNext]_vars

(***************************************************************************)
(* robust_parse_model_json on its own, over every reply of bounded length. *)
(***************************************************************************)
\* most lexemes of a reply
MaxReplyLen == 5

\* braces, prose, and two members
ReplyLexemes == {"{", "}", "p", "title", "desc"}

Replies == UNION {[1..n -> ReplyLexemes] : n \in 0..MaxReplyLen}

ParseInit ==
    /\ secrets_ok = TRUE
    /\ Tab1Idle
    /\ Tab2Idle
    /\ Tab3Idle
    /\ ppc = "call"
    /\ parse_in \in Replies
    /\ parse_out = None

\* lines 134-146: the call returns
ParseCall ==
    /\ ppc = "call"
    /\ parse_out' = robust_parse_model_json(parse_in)
    /\ ppc' = "returned"
    /\ UNCHANGED <<tab1Vars, fillVars, ttsVars, parse_in>>

ParseNext == ParseCall

SpecParse == ParseInit /\ [][ParseNext]_vars

(***************************************************************************)
(* Properties of the Tab 1 run.                                            *)
(***************************************************************************)
\* generate_and_upload_images has returned
ImagesReturned ==
    \/ pc \in {"seo", "save", "done"}
    \/ pc = "raised" /\ diag = "story_json_name raised"

\* sanitize_prompt has returned for slide i
Sanitized == pc \in {"synth", "fetch", "upload", "progress"}

RewriteFailed == sr.kind \in {"status", "badbody", "exception"}

IsImageValue(v) == v = DEFAULT_ERROR_IMAGE \/ v.kind = "cdn"

\* C1: whenever generate_and_upload_images returns, the record defines
\* s{i}image1 for every slide 1..6, each a display URL or the placeholder.
C1_AllSlideImagesDefined ==
    ImagesReturned =>
        \A j \in 1..NumSlides :
            ImageKey(j) \in DOMAIN out /\ IsImageValue(out[ImageKey(j)])

\* C2: a slide whose synthesis, fetch or store step failed gets the
\* placeholder as its display URL, and the run goes on: it is never aborted.
C2_SlideFailureDegradesAndContinues ==
    slideFailed =>
        /\ pc # "raised"
        /\ pc = "progress" =>
              /\ ImageKey(i) \in DOMAIN out
              /\ out[ImageKey(i)] = DEFAULT_ERROR_IMAGE

\* C3: ImageSynthesis is called at most 3 times for a slide, whatever it
\* answers, and so at most 18 times in a run.
C3_RetryBound ==
    /\ calls <= MaxAttempts
    /\ synthTotal <= MaxAttempts * i
    /\ synthTotal <= MaxAttempts * NumSlides

\* every slide was given up after 3 calls: 18 calls in the run
C3_Witness ==
    /\ pc = "cover"
    /\ synthTotal = MaxAttempts * NumSlides
    /\ \A j \in 1..NumSlides : out[ImageKey(j)] = DEFAULT_ERROR_IMAGE

CoverSet == "potraitcoverurl" \in DOMAIN out

\* C4: once the 6 slides were attempted the cover is derived from slide 1's
\* storage key when slide 1 was stored, it is the placeholder when slide 1 was
\* not, and every ImageSynthesis call is made in a slide's retry loop: none
\* for the cover.
C4_CoverFromSlideOne ==
    /\ [](CoverSet =>
            /\ 1 \in stored =>
                 out["potraitcoverurl"] =
                     build_resized_cdn_url(StorageKey(result.d, 1), CoverWidth, CoverHeight)
            /\ 1 \notin stored => out["potraitcoverurl"] = DEFAULT_ERROR_IMAGE)
    /\ [][synthTotal' # synthTotal => pc = "synth" /\ ~CoverSet /\ calls' = calls + 1]_vars

\* slide 1 ended with the placeholder, a later slide was stored, and the
\* cover is the placeholder
C4_Witness ==
    /\ CoverSet
    /\ 1 \notin stored
    /\ stored # {}
    /\ out["s1image1"] = DEFAULT_ERROR_IMAGE
    /\ out["potraitcoverurl"] = DEFAULT_ERROR_IMAGE

ExtractionFailed == diag = "Model did not return a valid JSON object"

\* C5: when the extraction reply does not parse and the repair fails too,
\* the run stops there: one repair call was made, no sanitizer, image or SEO
\* call is made, the session's story_json is as it was and no download is
\* offered.
C5_ExtractionFailedStops ==
    ExtractionFailed =>
        /\ pc = "stopped"
        /\ ~result.ok
        /\ repairCalls = 1
        /\ rewriteTotal = 0
        /\ synthTotal = 0
        /\ seoCalls = 0
        /\ story_json = NoDoc
        /\ ~download

C5_Witness ==
    /\ ExtractionFailed
    /\ pc = "stopped"
    /\ repairCalls = 1
    /\ content = <<"{", "title", "}", "p", "}">>

\* C6 (as the spec states it): when the rewrite call fails, sanitize_prompt
\* returns exactly SAFE_FALLBACK; one rewrite call per prompt.
C6_FailureReturnsSafeFallback ==
    (pc = "synth" /\ calls = 0 /\ RewriteFailed) =>
        /\ safe_prompt = SAFE_FALLBACK
        /\ rewriteTotal = i

\* C6 (amended): when the rewrite call fails (it raises, answers a status
\* other than 200, or a 200 whose body lacks the text), sanitize_prompt
\* returns the original prompt followed by the fixed guard suffix, not
\* SAFE_FALLBACK; one rewrite call was made for each prompt so far.
C6_FailureAppendsGuards ==
    (pc = "synth" /\ calls = 0 /\ RewriteFailed) =>
        /\ safe_prompt = raw_prompt \o LOCAL_GUARDS
        /\ safe_prompt # SAFE_FALLBACK
        /\ rewriteTotal = i

C6_Witness ==
    /\ pc = "synth"
    /\ calls = 0
    /\ sr.kind = "exception"
    /\ raw_prompt = <<"x">>
    /\ safe_prompt = <<"x", "\n", "G">>
    /\ i = 3

\* C7: sanitize_prompt returns a non-empty text, whatever the prompt and
\* whatever the rewrite call answers.
C7_SanitizedNonEmpty == Sanitized => safe_prompt # <<>>

\* C8 (as the spec states it): with no Moderation configured the sanitizer
\* makes no rewrite call and the first ImageSynthesis attempt of a slide
\* sends the slide's original prompt.
C8_FirstAttemptSendsOriginal ==
    /\ rewriteTotal = 0
    /\ calls >= 1 => firstPrompt = raw_prompt

\* C8 (amended): the program has no Moderation step; the sanitizer makes one
\* rewrite call for every slide, and the first ImageSynthesis attempt of a
\* slide sends the sanitizer's output, which is the original prompt only
\* when the rewrite answered 200 with that very text (after strip).
C8_FirstAttemptSendsSanitized ==
    /\ Sanitized => rewriteTotal = i
    /\ calls >= 1 => firstPrompt = safe_prompt
    /\ (pc = "synth" /\ calls = 0) =>
          /\ payload = safe_prompt
          /\ payload = raw_prompt => (sr.kind = "ok" /\ Strip(sr.content) = raw_prompt)

C8_Witness ==
    /\ calls = 1
    /\ raw_prompt = <<"x">>
    /\ firstPrompt = <<"x", "x">>
    /\ rewriteTotal = i
    /\ i = 2

\* C9: generate_seo_metadata returns a description and keywords that are
\* both non-empty strings, whatever the SEO call answers.
C9_SeoPopulated ==
    meta.set =>
        /\ Truthy(meta.metadescription)
        /\ Truthy(meta.metakeywords)

(***************************************************************************)
(* Properties of the Tab 3 run.                                            *)
(***************************************************************************)
\* the member of data whose token the text starts with, 0 when none does
TokenAt(t, data) ==
    IF \E n \in 1..Len(data) : StartsWith(t, Token(data[n].k))
    THEN CHOOSE n \in 1..Len(data) : StartsWith(t, Token(data[n].k))
    ELSE 0

\* the template with each {{key}} token of a key of data replaced by the
\* value's text, and every other character as it was
RECURSIVE TokensReplaced(_, _)
TokensReplaced(t, data) ==
    IF t = <<>> THEN <<>>
    ELSE LET n == TokenAt(t, data)
         IN IF n # 0
            THEN TextForm(data[n].v)
                 \o TokensReplaced(SubSeq(t, Len(Token(data[n].k)) + 1, Len(t)), data)
            ELSE <<Head(t)>> \o TokensReplaced(Tail(t), data)

\* a template was filled and written to the ZIP
FilledOne == fpc \in {"zip", "done"} /\ zip_entries # <<>>

\* C10: the filled text is the template with every {{name}} token whose name
\* is a key replaced by the value's text and nothing else changed: tokens of
\* other names stay as they are.
C10_FillReplacesTokensOnly ==
    FilledOne =>
        /\ filled = TokensReplaced(html_text, merged)
        /\ zip_entries = <<filled>>

\* the names n whose token {{n}} occurs in the text, letter for letter
ExactTokenNames(t) ==
    {n \in {SubSeq(t, p, q) : p \in 1..Len(t), q \in 1..Len(t)} :
        /\ n # <<>>
        /\ \A c \in 1..Len(n) : IsNameChar(n[c])
        /\ Contains(t, Token(n))}

\* C11: the missing-field report of a file holds exactly the names of the
\* {{name}} tokens that occur in the template and are no key of the mapping;
\* a reported token is still in the output, and a token of the template that
\* is not reported was replaced: where the output shows it, a value brought
\* it in.
C11_MissingReportExact ==
    FilledOne =>
        /\ missing = {n \in ExactTokenNames(html_text) : n \notin Keys(merged)}
        /\ \A n \in missing : Contains(filled, Token(n))
        /\ \A n \in ExactTokenNames(html_text) \ missing :
              Contains(filled, Token(n)) =>
                  \E m \in 1..Len(merged) : Contains(TextForm(merged[m].v), Token(n))

\* "{{a}}{{b}}" filled from {"a": "X"}: a replaced, b reported and left
C11_Witness ==
    /\ FilledOne
    /\ html_text = <<"{", "{", "a", "}", "}", "{", "{", "b", "}", "}">>
    /\ Keys(merged) = {<<"a">>}
    /\ missing = {<<"b">>}
    /\ filled = <<"X", "{", "{", "b", "}", "}">>

(***************************************************************************)
(* Properties of the Tab 2 run.                                            *)
(***************************************************************************)
\* C12: after a Tab 2 run every one of the 6 fields was passed and each of
\* s1audio1..s6audio1 is in the record with a stored-artifact URL (the code
\* has no audio placeholder to put there): none is null or missing.
C12_AllAudioFieldsDefined ==
    tpc \in {"save", "done", "raised"} =>
        /\ field = NumFields
        /\ \A k \in 1..NumFields :
              /\ AudioKey(k) \in DOMAIN json_data.audio
              /\ json_data.audio[AudioKey(k)].kind = "audio"

(***************************************************************************)
(* Properties of robust_parse_model_json.                                  *)
(***************************************************************************)
\* the nesting depth after each lexeme of t, 0 before the first
RECURSIVE DepthAfter(_, _)
DepthAfter(t, n) ==
    IF n = 0 THEN 0
    ELSE DepthAfter(t, n - 1)
         + (IF t[n] = "{" THEN 1 ELSE 0) - (IF t[n] = "}" THEN 1 ELSE 0)

\* t[p..q] is a balanced {...}: it opens at p and q is where that brace closes
IsBalancedAt(t, p, q) ==
    /\ t[p] = "{"
    /\ t[q] = "}"
    /\ DepthAfter(t, q) = DepthAfter(t, p - 1)
    /\ \A n \in p..(q - 1) : DepthAfter(t, n) > DepthAfter(t, p - 1)

BalancedSpans(t) ==
    {s \in (1..Len(t)) \X (1..Len(t)) : s[1] < s[2] /\ IsBalancedAt(t, s[1], s[2])}

\* the first balanced {...} substring of t, <<>> when there is none
FirstBalanced(t) ==
    IF BalancedSpans(t) = {} THEN <<>>
    ELSE LET s == CHOOSE s \in BalancedSpans(t) : \A u \in BalancedSpans(t) : s[1] <= u[1]
         IN SubSeq(t, s[1], s[2])

\* C13: for a reply that is not valid JSON but whose first balanced {...}
\* substring is a valid JSON object, whatever prose and braces surround it,
\* robust_parse_model_json returns the object parsed from that substring.
C13_FirstBalancedObjectParsed ==
    (/\ ppc = "returned"
     /\ JsonLoads(parse_in).kind = "error"
     /\ JsonLoads(FirstBalanced(parse_in)).kind = "dict") =>
        parse_out = Some(JsonLoads(FirstBalanced(parse_in)).d)

(***************************************************************************)
(* Properties of a slide's retry loop.                                     *)
(***************************************************************************)
\* a step that makes an ImageSynthesis call: it sends payload
SynthCall == calls' = calls + 1

\* C14: the first attempt of a slide sends that slide's sanitized prompt;
\* an attempt after a 400 or 403 sends SAFE_FALLBACK, and so does every later
\* attempt of the slide; after a 429 the next attempt sends what the last one
\* sent; each 400, 403 or 429 uses up one of the 3 attempts.
C14_PromptPerAttempt ==
    /\ [](pc = "synth" => attempt = calls /\ calls < MaxAttempts)
    /\ [](calls >= 1 => firstPrompt = safe_prompt /\ payload \in {safe_prompt, SAFE_FALLBACK})
    /\ [][SynthCall =>
            /\ pc = "synth"
            /\ calls = 0 =>
                  /\ payload = safe_prompt
                  /\ safe_prompt = sanitize_prompt(RawPrompt(result.d, i), sr)
            /\ status_code \in {"400", "403"} => payload = SAFE_FALLBACK
            /\ payload = SAFE_FALLBACK => payload' = SAFE_FALLBACK
            /\ status_code' \in {"400", "403"} => payload' = SAFE_FALLBACK
            /\ status_code' = "429" => payload' = payload
            /\ (status_code' \in {"400", "403", "429"} /\ pc' # "raised") =>
                  attempt' = attempt + 1]_vars

\* slide 1 was given up; slide 2 sent its own prompt first, then got a 400
\* and a 429: its third attempt is about to send SAFE_FALLBACK
C14_Witness ==
    /\ i = 2
    /\ out["s1image1"] = DEFAULT_ERROR_IMAGE
    /\ pc = "synth"
    /\ calls = 2
    /\ status_code = "429"
    /\ firstPrompt = <<"x">>
    /\ payload = SAFE_FALLBACK

\* the slide's image field holds the display URL of its stored object
SlideStored(j) ==
    /\ j \in stored
    /\ ImageKey(j) \in DOMAIN out
    /\ out[ImageKey(j)] = build_resized_cdn_url(StorageKey(result.d, j), SlideWidth, SlideHeight)

\* C15 (as the spec states it): a 429 on attempt 1 and a 200 on attempt 2,
\* then fetch and store, end with the slide stored and one sleep; and after
\* every 429 (every sleep) a retry of the slide is pending.
C15_EverySleepThenRetry ==
    /\ (pc = "progress" /\ ~slideFailed) => (SlideStored(i) /\ sleeps <= calls)
    /\ (status_code = "429" /\ pc # "raised") => (pc = "synth" /\ attempt < MaxAttempts)

\* C15 (amended): a 429 on attempt 1 and a 200 on attempt 2, then fetch and
\* store, end with the slide stored and exactly one sleep; an ImageSynthesis
\* call adds a sleep when it answers 429 and only then; after a 429 on
\* attempt 1 or 2 the next step is a retry of the same slide, after a 429 on
\* attempt 3 the slide is given up with the placeholder and no retry.
C15_SleepPer429 ==
    /\ []((pc = "progress" /\ ~slideFailed) => (SlideStored(i) /\ status_code = "200"))
    /\ [](sleeps <= calls)
    /\ []((status_code = "429" /\ pc # "raised") =>
            \/ pc = "synth" /\ attempt < MaxAttempts
            \/ /\ pc = "progress"
               /\ calls = MaxAttempts
               /\ out[ImageKey(i)] = DEFAULT_ERROR_IMAGE)
    /\ [][SynthCall =>
            /\ sleeps' = IF status_code' = "429" /\ pc' # "raised" THEN sleeps + 1 ELSE sleeps
            /\ (calls = 1 /\ status_code = "429" /\ status_code' = "200" /\ pc' = "fetch") =>
                  sleeps' = 1]_vars
    /\ [][sleeps' # sleeps => SynthCall \/ (pc = "progress" /\ sleeps' = 0)]_vars
    /\ [][pc = "synth" => SynthCall /\ i' = i]_vars

\* slide 3: 429, then 200, fetched and stored, one sleep
C15_Witness ==
    /\ i = 3
    /\ pc = "progress"
    /\ calls = 2
    /\ sleeps = 1
    /\ status_code = "200"
    /\ ~slideFailed
    /\ SlideStored(3)

(***************************************************************************)
(* Properties of the extraction call.                                      *)
(***************************************************************************)
\* no rewrite, repair, image or SEO call was made, nothing stored or saved
NothingAfterChat ==
    /\ repairCalls = 0
    /\ rewriteTotal = 0
    /\ synthTotal = 0
    /\ seoCalls = 0
    /\ stored = {}
    /\ story_json = NoDoc
    /\ ~download

ChatErrors == {"Azure request failed", "Azure retry failed", "Azure Chat error"}

\* C16 (as the spec states it): once the extraction call was answered a
\* status other than 200 the run ends stopped, with a diagnostic of
\* call_azure_chat, and nothing more is called (the state in which the code
\* has the answer and has not acted on it yet is left aside); a parse failure
\* is repaired once.
C16_Non200StopsTheRun ==
    /\ (res = "status" /\ pc # "chat_retry") =>
          (pc = "stopped" /\ diag \in ChatErrors /\ NothingAfterChat)
    /\ repairCalls <= 1

\* C16 (amended): a status other than 200 on the first extraction post is
\* followed by one more post, without response_format; a status other than
\* 200 on that second post, or an exception of either post, stops the run
\* with its diagnostic and nothing more is called; a parse failure is repaired
\* once.
C16_Non200RetriedOnce ==
    /\ [](res = "status" =>
            \/ pc = "chat_retry" /\ res2 = "none" /\ diag = "none"
            \/ pc = "parse" /\ res2 = "200"
            \/ pc = "stopped" /\ res2 = "none" /\ diag = "Azure retry failed"
            \/ pc = "stopped" /\ res2 = "status" /\ diag = "Azure Chat error")
    /\ [](res2 # "none" => res = "status")
    /\ [](res2 = "status" => pc = "stopped" /\ diag = "Azure Chat error")
    /\ [](diag \in ChatErrors => pc = "stopped" /\ NothingAfterChat)
    /\ [](repairCalls <= 1)
    /\ [][pc # "stopped"]_vars

\* both posts were answered a status other than 200
C16_Witness ==
    /\ res = "status"
    /\ res2 = "status"
    /\ pc = "stopped"
    /\ diag = "Azure Chat error"

(***************************************************************************)
(* Properties of the stored images.                                        *)
(***************************************************************************)
\* slide j's image field holds a URL other than the placeholder
HasRealImage(j) ==
    ImageKey(j) \in DOMAIN out /\ out[ImageKey(j)] # DEFAULT_ERROR_IMAGE

\* C17: a slide's image field holds a URL other than the placeholder only
\* when that slide was stored, under its own key <slug>/slide<j>; a store
\* happens only in the slide's own turn, after one of its at most 3
\* ImageSynthesis calls answered 200 with a URL and the fetch was made, once
\* per slide and in slide order; the keys of the stored slides are pairwise
\* distinct.
C17_RealImageOnlyWhenStored ==
    /\ [](\A j \in 1..NumSlides :
            HasRealImage(j) =>
                /\ SlideStored(j)
                /\ out[ImageKey(j)].key.slide = j
                /\ out[ImageKey(j)].key.slug = Slug(result.d))
    /\ [](\A j \in 1..NumSlides : \A k \in 1..NumSlides :
            (j # k /\ HasRealImage(j) /\ HasRealImage(k)) =>
                out[ImageKey(j)].key # out[ImageKey(k)].key)
    /\ [](\A j \in stored : j <= i)
    /\ [][stored' # stored =>
            /\ pc = "upload"
            /\ i \notin stored
            /\ stored' = stored \cup {i}
            /\ \A j \in stored : j < i
            /\ status_code = "200"
            /\ calls \in 1..MaxAttempts
            /\ image_url # NoText
            /\ img_data # "none"
            /\ out'[ImageKey(i)] =
                   build_resized_cdn_url(StorageKey(result.d, i), SlideWidth, SlideHeight)]_vars

\* all 6 slides stored, under 6 keys
C17_Witness ==
    /\ pc = "cover"
    /\ stored = 1..NumSlides
    /\ \A j \in 1..NumSlides : HasRealImage(j)
    /\ Cardinality({out[ImageKey(j)].key : j \in 1..NumSlides}) = NumSlides

====
